---- MODULE Spec2Model ----
(***************************************************************************)
(* Model of tower's retry::future::ResponseFuture (retry/future.rs): the   *)
(* state machine that drives one logical call through the wrapped          *)
(* service, the policy's retry decision and the service's readiness.       *)
(***************************************************************************)
EXTENDS Integers, Sequences, FiniteSets, TLC

\* Largest number of retries the modelled policy may start with.
MaxRetries == 2

VARIABLES
    state,      \* State enum tag: "Called" | "Checking" | "Retrying"
    request,    \* Option<Request>: 0 = None, n > 0 = Some(copy n)
    policy,     \* retry.policy
    future,     \* payload of State::Called (the S::Future)
    checking,   \* payload of State::Checking (the P::Future)
    svcReady,   \* retry.service readiness check: "idle" | "pending" | "ok" | "err"
    log,        \* history: operations performed on the service and the policy
    attempts,   \* history: number of Service::call invocations so far
    nextId,     \* history: id of the next request copy a clone produces
    outcomes,   \* history: outcomes[k] = outcome the service resolved for attempt k
    output,     \* history: value returned in Poll::Ready
    ret,        \* history: what the last poll returned: "none" | "Pending" | "Ready"
    trail,      \* history: the State tags the future has been in, in order
    phase       \* "live" | "done" | "panicked" | "dropped"

vars == <<state, request, policy, future, checking, svcReady, log, attempts,
          nextId, outcomes, output, ret, trail, phase>>

----------------------------------------------------------------------------
\* Values

NoReq == 0

NoResult == [tag |-> "None", from |-> "none", att |-> 0]

\* Result<S::Response, S::Error> of attempt a
CallOutcome(tag, a) == [tag |-> tag, from |-> "call", att |-> a]

\* the Err(e) that poll_ready returned while preparing attempt a
ReadyErr(a) == [tag |-> "Err", from |-> "ready", att |-> a]

NoPolicy == [left |-> 0, retryOk |-> FALSE, cloneMin |-> 0]

NoFut == [st |-> "none", att |-> 0, res |-> NoResult]

NoCheck == [st |-> "none", pol |-> NoPolicy]

\* The policies of the model: retry while `left` > 0 (errors only, or also
\* successes when retryOk), clone the request while left >= cloneMin.
Policies == [left : 0..MaxRetries, retryOk : BOOLEAN, cloneMin : 0..(MaxRetries + 1)]

\* Policy::retry(&self, req, result) -> Option<Self::Future>
PolicyRetry(p, req, result) ==
    IF p.left > 0 /\ (result.tag = "Err" \/ p.retryOk)
    THEN [st |-> "some", pol |-> [p EXCEPT !.left = @ - 1]]
    ELSE [st |-> "none", pol |-> NoPolicy]

\* Policy::clone_request(&self, req) -> Option<Req>
CloneRequest(p, req, fresh) ==
    IF p.left >= p.cloneMin THEN fresh ELSE NoReq

\* the S::Future returned by Service::call for attempt a, as first polled
NewFutures(a) ==
    {[st |-> "pending", att |-> a, res |-> NoResult]}
    \cup {[st |-> "ready", att |-> a, res |-> CallOutcome(t, a)] : t \in {"Ok", "Err"}}

Event(ev, a, r, o, p) == [ev |-> ev, att |-> a, req |-> r, res |-> o, pol |-> p]

\* the whole ResponseFuture as one record
Cur == [state |-> state, request |-> request, policy |-> policy,
        future |-> future, checking |-> checking, svcReady |-> svcReady,
        log |-> log, attempts |-> attempts, nextId |-> nextId,
        outcomes |-> outcomes, output |-> output, ret |-> ret, trail |-> trail,
        phase |-> phase]

Record(m, ev, a, r, o) == [m EXCEPT !.log = Append(@, Event(ev, a, r, o, m.policy))]

\* Suspend after the held request was already taken out of the future
SuspendTakes(m, ev) ==
    [m EXCEPT !.ret = "Pending",
              !.request = NoReq,
              !.log = IF Len(@) > 0 /\ @[Len(@)].ev = ev THEN @
                      ELSE Append(@, Event(ev, m.attempts, NoReq, NoResult, m.policy))]

\* ready!(..) saw Poll::Pending: poll returns Poll::Pending, nothing else changes
Suspend(m, ev) ==
    [m EXCEPT !.ret = "Pending",
              !.log = IF Len(@) > 0 /\ @[Len(@)].ev = ev THEN @
                      ELSE Append(@, Event(ev, m.attempts, NoReq, NoResult, m.policy))]

\* Finish returning the first outcome it ever saw instead of the current one
FinishStale(m, result) ==
    LET r == IF Len(m.outcomes) > 0 THEN m.outcomes[1] ELSE result IN
    [Record(m, "done", m.attempts, NoReq, r)
        EXCEPT !.ret = "Ready", !.output = r, !.phase = "done"]

\* return Poll::Ready(result)
Finish(m, result) ==
    [Record(m, "done", m.attempts, NoReq, result)
        EXCEPT !.ret = "Ready", !.output = result, !.phase = "done"]

Stop(m) == [m |-> m, cont |-> FALSE]
Go(m) == [m |-> m, cont |-> TRUE]

----------------------------------------------------------------------------
\* The three arms of the match in ResponseFuture::poll.  Each returns the set
\* of possible results of one pass through the loop body: the new value of
\* the future and whether the loop goes round again (cont) or poll returns.

\* Called without the `if let Some(ref req) = this.request` test
CalledNoCheck(m) ==
    IF m.future.st # "ready"
    THEN {Stop(Suspend(m, "call_pending"))}
    ELSE LET result == m.future.res
             d  == PolicyRetry(m.policy, m.request, result)
             m1 == Record(m, "retry", result.att, m.request, result)
         IN  IF d.st = "some"
             THEN {Go([m1 EXCEPT !.state = "Checking",
                                 !.future = NoFut,
                                 !.checking = [st |-> s, pol |-> d.pol]])
                      : s \in {"pending", "ready"}}
             ELSE {Stop(Finish(m1, result))}

\* Called handing the policy the first outcome instead of the current one
CalledStaleOutcome(m) ==
    IF m.future.st # "ready"
    THEN {Stop(Suspend(m, "call_pending"))}
    ELSE LET result == m.outcomes[1] IN
         IF m.request # NoReq
         THEN LET d  == PolicyRetry(m.policy, m.request, result)
                  m1 == Record(m, "retry", result.att, m.request, result)
              IN  IF d.st = "some"
                  THEN {Go([m1 EXCEPT !.state = "Checking",
                                      !.future = NoFut,
                                      !.checking = [st |-> s, pol |-> d.pol]])
                           : s \in {"pending", "ready"}}
                  ELSE {Stop(Finish(m1, m.future.res))}
         ELSE {Stop(Finish(m, m.future.res))}

\* Called keeping the service future alive next to the decision future
CalledKeepsFuture(m) ==
    IF m.future.st # "ready"
    THEN {Stop(Suspend(m, "call_pending"))}
    ELSE LET result == m.future.res IN
         IF m.request # NoReq
         THEN LET d  == PolicyRetry(m.policy, m.request, result)
                  m1 == Record(m, "retry", result.att, m.request, result)
              IN  IF d.st = "some"
                  THEN {Go([m1 EXCEPT !.state = "Checking",
                                      !.checking = [st |-> s, pol |-> d.pol]])
                           : s \in {"pending", "ready"}}
                  ELSE {Stop(Finish(m1, result))}
         ELSE {Stop(Finish(m, result))}

\* Called returning an Err outcome at once, consulting the policy for Ok only
CalledErrFinal(m) ==
    IF m.future.st # "ready"
    THEN {Stop(Suspend(m, "call_pending"))}
    ELSE LET result == m.future.res IN
         IF m.request # NoReq /\ result.tag = "Ok"
         THEN LET d  == PolicyRetry(m.policy, m.request, result)
                  m1 == Record(m, "retry", result.att, m.request, result)
              IN  IF d.st = "some"
                  THEN {Go([m1 EXCEPT !.state = "Checking",
                                      !.future = NoFut,
                                      !.checking = [st |-> s, pol |-> d.pol]])
                           : s \in {"pending", "ready"}}
                  ELSE {Stop(Finish(m1, result))}
         ELSE {Stop(Finish(m, result))}

\* Called showing the policy an Err whatever the attempt resolved to
CalledFlipsOutcome(m) ==
    IF m.future.st # "ready"
    THEN {Stop(Suspend(m, "call_pending"))}
    ELSE LET result == m.future.res
             shown  == [result EXCEPT !.tag = "Err"]
         IN
         IF m.request # NoReq
         THEN LET d  == PolicyRetry(m.policy, m.request, shown)
                  m1 == Record(m, "retry", result.att, m.request, shown)
              IN  IF d.st = "some"
                  THEN {Go([m1 EXCEPT !.state = "Checking",
                                      !.future = NoFut,
                                      !.checking = [st |-> s, pol |-> d.pol]])
                           : s \in {"pending", "ready"}}
                  ELSE {Stop(Finish(m1, result))}
         ELSE {Stop(Finish(m, result))}

\* Called applying the decision at once and going straight to Retrying
CalledSkipsChecking(m) ==
    IF m.future.st # "ready"
    THEN {Stop(Suspend(m, "call_pending"))}
    ELSE LET result == m.future.res IN
         IF m.request # NoReq
         THEN LET d  == PolicyRetry(m.policy, m.request, result)
                  m1 == Record(m, "retry", result.att, m.request, result)
              IN  IF d.st = "some"
                  THEN {Go(Record([m1 EXCEPT !.state = "Retrying",
                                             !.future = NoFut,
                                             !.policy = d.pol],
                                  "decided", m.attempts, m.request, NoResult))}
                  ELSE {Stop(Finish(m1, result))}
         ELSE {Stop(Finish(m, result))}

\* State::Called(future)
Called(m) ==
    IF m.future.st # "ready"
    THEN {Stop(Suspend(m, "call_pending"))}
    ELSE LET result == m.future.res IN
         IF m.request # NoReq
         THEN LET d  == PolicyRetry(m.policy, m.request, result)
                  m1 == Record(m, "retry", result.att, m.request, result)
              IN  IF d.st = "some"
                  THEN {Go([m1 EXCEPT !.state = "Checking",
                                      !.future = NoFut,
                                      !.checking = [st |-> s, pol |-> d.pol]])
                           : s \in {"pending", "ready"}}
                  ELSE {Stop(Finish(m1, result))}
         ELSE {Stop(Finish(m, result))}

\* Checking returning Pending after the decision resolved, without awaiting
\* anything
CheckingYields(m) ==
    IF m.checking.st # "ready"
    THEN {Stop(Suspend(m, "check_pending"))}
    ELSE LET m1 == [m EXCEPT !.policy = m.checking.pol,
                             !.state = "Retrying",
                             !.checking = NoCheck,
                             !.ret = "Pending"]
         IN  {Stop(Record(m1, "decided", m.attempts, m.request, NoResult))}

\* Checking asking the policy again on every poll that finds the decision
\* pending
CheckingReconsults(m) ==
    IF m.checking.st # "ready"
    THEN {Stop(Suspend(Record(m, "retry", m.attempts, m.request, m.outcomes[m.attempts]),
                       "check_pending"))}
    ELSE LET m1 == [m EXCEPT !.policy = m.checking.pol,
                             !.state = "Retrying",
                             !.checking = NoCheck]
         IN  {Go(Record(m1, "decided", m.attempts, m.request, NoResult))}

\* State::Checking(future)
Checking(m) ==
    IF m.checking.st # "ready"
    THEN {Stop(Suspend(m, "check_pending"))}
    ELSE LET m1 == [m EXCEPT !.policy = m.checking.pol,
                             !.state = "Retrying",
                             !.checking = NoCheck]
         IN  {Go(Record(m1, "decided", m.attempts, m.request, NoResult))}

\* what service.poll_ready(cx) can return in this poll
PollReady(m) ==
    IF m.svcReady = "idle" THEN {"pending", "ok", "err"} ELSE {m.svcReady}

\* Reissue that never asks for a clone: nothing is carried forward
ReissueDropsClone(m) ==
    IF m.request = NoReq
    THEN {Stop([m EXCEPT !.phase = "panicked", !.ret = "none"])}
    ELSE LET req   == m.request
             a     == m.attempts + 1
             m2    == Record(m, "clone", a, NoReq, NoResult)
             m3    == Record(m2, "call", a, req, NoResult)
         IN  {Go([m3 EXCEPT !.request = NoReq,
                            !.svcReady = "idle",
                            !.attempts = a,
                            !.state = "Called",
                            !.outcomes = IF f.st = "ready" THEN Append(@, f.res) ELSE @,
                            !.future = f])
                 : f \in NewFutures(a)}

\* Reissue that keeps the request it has just handed to the service
ReissueKeepsConsumed(m) ==
    IF m.request = NoReq
    THEN {Stop([m EXCEPT !.phase = "panicked", !.ret = "none"])}
    ELSE LET req   == m.request
             a     == m.attempts + 1
             clone == CloneRequest(m.policy, req, m.nextId)
             m2    == Record(m, "clone", a, clone, NoResult)
             m3    == Record(m2, "call", a, req, NoResult)
         IN  {Go([m3 EXCEPT !.request = req,
                            !.nextId = IF clone = NoReq THEN @ ELSE @ + 1,
                            !.svcReady = "idle",
                            !.attempts = a,
                            !.state = "Called",
                            !.outcomes = IF f.st = "ready" THEN Append(@, f.res) ELSE @,
                            !.future = f])
                 : f \in NewFutures(a)}

\* Reissue that submits the fresh clone and keeps the original
ReissueSubmitsClone(m) ==
    IF m.request = NoReq
    THEN {Stop([m EXCEPT !.phase = "panicked", !.ret = "none"])}
    ELSE LET req   == m.request
             a     == m.attempts + 1
             clone == CloneRequest(m.policy, req, m.nextId)
             sent  == IF clone = NoReq THEN req ELSE clone
             m2    == Record(m, "clone", a, clone, NoResult)
             m3    == Record(m2, "call", a, sent, NoResult)
         IN  {Go([m3 EXCEPT !.request = IF clone = NoReq THEN NoReq ELSE req,
                            !.nextId = IF clone = NoReq THEN @ ELSE @ + 1,
                            !.svcReady = "idle",
                            !.attempts = a,
                            !.state = "Called",
                            !.outcomes = IF f.st = "ready" THEN Append(@, f.res) ELSE @,
                            !.future = f])
                 : f \in NewFutures(a)}

\* Reissue that clones with the policy the call started with
ReissueStalePolicy(m) ==
    IF m.request = NoReq
    THEN {Stop([m EXCEPT !.phase = "panicked", !.ret = "none"])}
    ELSE LET req   == m.request
             a     == m.attempts + 1
             old   == m.log[1].pol
             clone == CloneRequest(old, req, m.nextId)
             m2    == [m EXCEPT !.log = Append(@, Event("clone", a, clone, NoResult, old))]
             m3    == Record(m2, "call", a, req, NoResult)
         IN  {Go([m3 EXCEPT !.request = clone,
                            !.nextId = IF clone = NoReq THEN @ ELSE @ + 1,
                            !.svcReady = "idle",
                            !.attempts = a,
                            !.state = "Called",
                            !.outcomes = IF f.st = "ready" THEN Append(@, f.res) ELSE @,
                            !.future = f])
                 : f \in NewFutures(a)}

\* the tail of State::Retrying after poll_ready returned Ready(Ok(()))
Reissue(m) ==
    IF m.request = NoReq
    THEN \* expect("retrying requires cloned request") panics
         {Stop([m EXCEPT !.phase = "panicked", !.ret = "none"])}
    ELSE LET req   == m.request
             a     == m.attempts + 1
             clone == CloneRequest(m.policy, req, m.nextId)
             m2    == Record(m, "clone", a, clone, NoResult)
             m3    == Record(m2, "call", a, req, NoResult)
         IN  {Go([m3 EXCEPT !.request = clone,
                            !.nextId = IF clone = NoReq THEN @ ELSE @ + 1,
                            !.svcReady = "idle",
                            !.attempts = a,
                            !.state = "Called",
                            !.outcomes = IF f.st = "ready" THEN Append(@, f.res) ELSE @,
                            !.future = f])
                 : f \in NewFutures(a)}

\* Retrying without the `?`: a readiness error is dropped and the call goes on
RetryingIgnoresErr(m) ==
    UNION {
        CASE r = "pending" ->
               {Stop(Suspend([m EXCEPT !.svcReady = "pending"], "ready_pending"))}
          [] r = "err" ->
               LET a == m.attempts + 1 IN
               Reissue(Record([m EXCEPT !.svcReady = "err"],
                              "ready_err", a, NoReq, ReadyErr(a)))
          [] OTHER -> Reissue(Record(m, "ready_ok", m.attempts + 1, NoReq, NoResult))
        : r \in PollReady(m)}

\* Retrying without the `ready!`: a pending readiness does not suspend
RetryingNoWait(m) ==
    UNION {
        CASE r = "pending" ->
               Reissue(Suspend([m EXCEPT !.svcReady = "pending"], "ready_pending"))
          [] r = "err" ->
               LET a == m.attempts + 1 IN
               {Stop(Finish(Record([m EXCEPT !.svcReady = "err"],
                                   "ready_err", a, NoReq, ReadyErr(a)),
                            ReadyErr(a)))}
          [] OTHER -> Reissue(Record(m, "ready_ok", m.attempts + 1, NoReq, NoResult))
        : r \in PollReady(m)}

\* Retrying that takes the request before it polls readiness
RetryingTakesEarly(m) ==
    UNION {
        CASE r = "pending" ->
               {Stop(Suspend([m EXCEPT !.svcReady = "pending", !.request = NoReq],
                             "ready_pending"))}
          [] r = "err" ->
               LET a == m.attempts + 1 IN
               {Stop(Finish(Record([m EXCEPT !.svcReady = "err"],
                                   "ready_err", a, NoReq, ReadyErr(a)),
                            ReadyErr(a)))}
          [] OTHER -> Reissue(Record(m, "ready_ok", m.attempts + 1, NoReq, NoResult))
        : r \in PollReady(m)}

\* State::Retrying
Retrying(m) ==
    UNION {
        CASE r = "pending" ->
               {Stop(Suspend([m EXCEPT !.svcReady = "pending"], "ready_pending"))}
          [] r = "err" ->
               LET a == m.attempts + 1 IN
               {Stop(Finish(Record([m EXCEPT !.svcReady = "err"],
                                   "ready_err", a, NoReq, ReadyErr(a)),
                            ReadyErr(a)))}
          [] OTHER -> Reissue(Record(m, "ready_ok", m.attempts + 1, NoReq, NoResult))
        : r \in PollReady(m)}

\* the loop of ResponseFuture::poll: the set of values the future can have
\* when poll returns
RECURSIVE PollLoop(_)
PollLoop(m) ==
    LET arm == CASE m.state = "Called" -> Called(m)
                 [] m.state = "Checking" -> Checking(m)
                 [] OTHER -> Retrying(m)
        \* state.set(..) in the arm: the new variant joins the trail
        after(r) == [r.m EXCEPT !.trail = IF r.m.state # m.state
                                          THEN Append(@, r.m.state) ELSE @]
    IN  UNION {IF r.cont THEN PollLoop(after(r)) ELSE {after(r)} : r \in arm}

----------------------------------------------------------------------------
\* State after ResponseFuture::new(request, retry, future): the wrapper has
\* asked the policy for a clone of the incoming request (copy 2, or None),
\* which is the `request` argument, and has submitted the original, copy 1,
\* as attempt 1, which is the `future` argument.
Init ==
    /\ state = "Called"
    /\ policy \in Policies
    /\ request = CloneRequest(policy, 1, 2)
    /\ future \in NewFutures(1)
    /\ checking = NoCheck
    /\ svcReady = "idle"
    /\ log = <<Event("clone", 1, request, NoResult, policy),
               Event("call", 1, 1, NoResult, policy)>>
    /\ attempts = 1
    /\ nextId = 3
    /\ outcomes = IF future.st = "ready" THEN <<future.res>> ELSE <<>>
    /\ output = NoResult
    /\ ret = "none"
    /\ trail = <<"Called">>
    /\ phase = "live"

Install(m) ==
    /\ state' = m.state
    /\ request' = m.request
    /\ policy' = m.policy
    /\ future' = m.future
    /\ checking' = m.checking
    /\ svcReady' = m.svcReady
    /\ log' = m.log
    /\ attempts' = m.attempts
    /\ nextId' = m.nextId
    /\ outcomes' = m.outcomes
    /\ output' = m.output
    /\ ret' = m.ret
    /\ trail' = m.trail
    /\ phase' = m.phase

\* one call of ResponseFuture::poll by the executor (a wake, possibly spurious)
Poll ==
    /\ phase = "live"
    /\ \E m \in PollLoop(Cur) : Install(m)

\* the in-flight S::Future resolves
CallResolves ==
    /\ phase = "live"
    /\ future.st = "pending"
    /\ \E t \in {"Ok", "Err"} :
         /\ future' = [future EXCEPT !.st = "ready", !.res = CallOutcome(t, future.att)]
         /\ outcomes' = Append(outcomes, CallOutcome(t, future.att))
    /\ UNCHANGED <<state, request, policy, checking, svcReady, log, attempts,
                   nextId, output, ret, trail, phase>>

\* the P::Future of the retry decision resolves
DecisionResolves ==
    /\ phase = "live"
    /\ checking.st = "pending"
    /\ checking' = [checking EXCEPT !.st = "ready"]
    /\ UNCHANGED <<state, request, policy, future, svcReady, log, attempts,
                   nextId, outcomes, output, ret, trail, phase>>

\* the wrapped service's readiness resolves
ReadyResolves ==
    /\ phase = "live"
    /\ svcReady = "pending"
    /\ svcReady' \in {"ok", "err"}
    /\ UNCHANGED <<state, request, policy, future, checking, log, attempts,
                   nextId, outcomes, output, ret, trail, phase>>

\* a drop that first flushes the held request to the service
DropFlushes ==
    /\ phase = "live"
    /\ phase' = "dropped"
    /\ request' = NoReq
    /\ future' = NoFut
    /\ checking' = NoCheck
    /\ svcReady' = "idle"
    /\ attempts' = attempts + 1
    /\ log' = Append(log, Event("call", attempts + 1, request, NoResult, policy))
    /\ UNCHANGED <<state, policy, nextId, outcomes, output, ret, trail>>

\* the caller drops the ResponseFuture before it completed: its fields
\* (request, retry, state and the future inside state) are dropped with it
Drop ==
    /\ phase = "live"
    /\ phase' = "dropped"
    /\ request' = NoReq
    /\ future' = NoFut
    /\ checking' = NoCheck
    /\ svcReady' = "idle"
    /\ UNCHANGED <<state, policy, log, attempts, nextId, outcomes, output, ret, trail>>

Next ==
    \/ Poll
    \/ CallResolves
    \/ DecisionResolves
    \/ ReadyResolves
    \/ Drop

Spec == Init /\ [][Next]_vars

\* The executor polls the future again whenever a poll can make progress, and
\* every service call, retry decision and readiness check eventually resolves.
FairSpec ==
    /\ Init
    /\ [][Next]_vars
    /\ WF_vars(Poll)
    /\ WF_vars(CallResolves)
    /\ WF_vars(DecisionResolves)
    /\ WF_vars(ReadyResolves)

TypeOK ==
    /\ state \in {"Called", "Checking", "Retrying"}
    /\ request \in 0..(MaxRetries + 3)
    /\ policy \in Policies
    /\ svcReady \in {"idle", "pending", "ok", "err"}
    /\ attempts \in 1..(MaxRetries + 1)
    /\ phase \in {"live", "done", "panicked", "dropped"}
    /\ ret \in {"none", "Pending", "Ready"}
    /\ trail \in Seq({"Called", "Checking", "Retrying"})

----------------------------------------------------------------------------
\* Helpers for the properties

Idx == 1..Len(log)

\* the policy the call started with, and whether it started with a clone
policy0 == log[1].pol
heldAtStart == log[1].req # NoReq

EventsOf(ev) == {i \in Idx : log[i].ev = ev}

\* C1: a call that starts with no held request issues exactly one attempt,
\* never consults the policy and never leaves State::Called, whatever
\* Policy::retry would answer; when it completes, the value returned is the
\* outcome of that single attempt.
NoCloneNoRetry ==
    ~heldAtStart =>
        /\ attempts = 1
        /\ state = "Called"
        /\ EventsOf("retry") = {}
        /\ EventsOf("call") = {2}
        /\ phase \in {"live", "done", "dropped"}
        /\ phase = "done" => /\ Len(outcomes) = 1
                             /\ output = outcomes[1]
                             /\ output.att = 1

\* C1 witness: a completed single-attempt call whose policy would have retried
NoCloneNoRetryWitness ==
    /\ ~heldAtStart
    /\ phase = "done"
    /\ output.tag = "Err"
    /\ PolicyRetry(policy, 2, output).st = "some"

\* the scenario of the bounded-attempts property: a policy that clones every
\* request, a call that started with a clone, a service whose every attempt
\* so far failed and whose readiness check never failed
AlwaysFailing ==
    /\ policy0.cloneMin = 0
    /\ heldAtStart
    /\ \A k \in 1..Len(outcomes) : outcomes[k].tag = "Err"
    /\ EventsOf("ready_err") = {}

\* C2: with a policy that permits exactly N retries and a service whose
\* attempts always fail, never more than N+1 attempts are issued, and the
\* completed call has issued exactly N+1 and returns the (N+1)-th failure.
BoundedAttempts ==
    AlwaysFailing =>
        /\ attempts <= policy0.left + 1
        /\ phase = "done" =>
              /\ attempts = policy0.left + 1
              /\ Cardinality(EventsOf("call")) = policy0.left + 1
              /\ output = CallOutcome("Err", policy0.left + 1)
              /\ output = outcomes[policy0.left + 1]

\* C2 witness: the call completed after the largest number of retries
BoundedAttemptsWitness ==
    /\ AlwaysFailing
    /\ phase = "done"
    /\ policy0.left = MaxRetries
    /\ attempts = MaxRetries + 1

\* C3: a readiness error after an approved retry ends the call at once: the
\* call is done, its result is exactly that readiness error, the next attempt
\* was not issued, and no policy operation (retry, clone_request) follows it.
ReadinessFailureFinal ==
    \A i \in EventsOf("ready_err") :
        /\ i = Len(log) - 1
        /\ log[Len(log)].ev = "done"
        /\ phase = "done"
        /\ output = log[i].res
        /\ output = ReadyErr(attempts + 1)
        /\ log[i].att = attempts + 1
        /\ log[i - 1].ev \in {"decided", "ready_pending"}
        /\ \A j \in Idx : log[j].ev \in {"retry", "clone"} => log[j].res.from # "ready"

\* C3 witness: a call ended by a readiness error before its third attempt
ReadinessFailureWitness ==
    /\ EventsOf("ready_err") # {}
    /\ phase = "done"
    /\ attempts = 2

\* C4: attempt a (a > 1) is submitted only after the outcome of attempt a-1
\* was resolved, passed to Policy::retry and the decision resolved, in that
\* order; outcomes are passed to Policy::retry in attempt order.
OrderingInvariant ==
    /\ \A k \in EventsOf("call") :
          log[k].att > 1 =>
             \E i \in 1..(k - 1) : \E j \in (i + 1)..(k - 1) :
                /\ log[i].ev = "retry"
                /\ log[i].res.att = log[k].att - 1
                /\ Len(outcomes) >= log[k].att - 1
                /\ log[i].res = outcomes[log[k].att - 1]
                /\ log[j].ev = "decided"
    /\ \A i, j \in EventsOf("retry") : i < j => log[i].res.att < log[j].res.att
    /\ \A i, j \in EventsOf("call") : i < j => log[i].att < log[j].att

\* C4 witness: three attempts were issued
OrderingWitness ==
    /\ attempts = 3
    /\ Cardinality(EventsOf("retry")) >= 2

HeldBefore(i) ==
    LET cs == {j \in 1..(i - 1) : log[j].ev = "clone"}
    IN  log[CHOOSE j \in cs : \A k \in cs : k <= j].req

\* C6: Policy::retry is only ever called with a request the future holds: the
\* copy passed is the latest clone, it is not None, and it has not been
\* handed to the service.
RetryOnlyWithHeldRequest ==
    \A i \in EventsOf("retry") :
        /\ log[i].req # NoReq
        /\ log[i].req = HeldBefore(i)
        /\ \A k \in EventsOf("call") : k < i => log[k].req # log[i].req

\* C6 witness: the policy was consulted on the outcome of a re-attempt
RetryOnlyWithHeldRequestWitness ==
    \E i \in EventsOf("retry") : log[i].res.att = 2 /\ log[i].req = 3

\* the operations the future is waiting on
Outstanding ==
    {x \in {"call", "decision", "readiness"} :
        \/ x = "call" /\ future # NoFut
        \/ x = "decision" /\ checking # NoCheck
        \/ x = "readiness" /\ svcReady # "idle"}

\* C7: at most one of the service call, the retry decision and the readiness
\* check is outstanding, and it is the one the current State names.
SingleInFlight ==
    /\ Cardinality(Outstanding) <= 1
    /\ future # NoFut => state = "Called"
    /\ checking # NoCheck => state = "Checking"
    /\ svcReady # "idle" => state = "Retrying"

\* C7 witness: a readiness check outstanding before the second attempt
SingleInFlightWitness ==
    /\ state = "Retrying"
    /\ svcReady = "pending"
    /\ Outstanding = {"readiness"}

\* C8: dropping the future, and everything after the drop, performs no service
\* call and no policy operation.
CancelNoSideEffects ==
    [][phase' = "dropped" => (log' = log /\ attempts' = attempts)]_vars

\* C8 witness: a call dropped while waiting for the decision or for readiness
CancelWitness ==
    /\ phase = "dropped"
    /\ state \in {"Checking", "Retrying"}
    /\ log[Len(log)].ev \in {"check_pending", "ready_pending"}

\* C9 as stated: an error outcome of an attempt that became the result of the
\* call was passed to Policy::retry first.
AllErrorsToPolicy ==
    (phase = "done" /\ output.tag = "Err" /\ output.from = "call") =>
        \E i \in EventsOf("retry") : log[i].res = output

\* C9 amended: an error outcome of an attempt that became the result of the
\* call while a request was still held was passed to Policy::retry just
\* before and the policy declined; with no request held it became the result
\* without the policy being consulted on it.
HeldErrorsToPolicy ==
    (phase = "done" /\ output.tag = "Err" /\ output.from = "call") =>
        IF request # NoReq
        THEN /\ log[Len(log) - 1].ev = "retry"
             /\ log[Len(log) - 1].res = output
             /\ PolicyRetry(log[Len(log) - 1].pol, log[Len(log) - 1].req, output).st = "none"
        ELSE \A i \in EventsOf("retry") : log[i].res # output

\* C9 witness: the policy declined a failure of the second attempt
HeldErrorsToPolicyWitness ==
    /\ phase = "done"
    /\ output = CallOutcome("Err", 2)
    /\ request # NoReq

\* C10: a call delivers a result exactly when it is done, exactly once, and
\* the result is either the outcome the service resolved for the latest
\* attempt or the error the readiness check returned.
ExactlyOneOutcome ==
    /\ phase # "done" => (output = NoResult /\ EventsOf("done") = {})
    /\ phase = "done" =>
          /\ EventsOf("done") = {Len(log)}
          /\ output = log[Len(log)].res
          /\ ret = "Ready"
          /\ \/ /\ output.from = "call"
                /\ Len(outcomes) = attempts
                /\ output = outcomes[attempts]
                /\ future.res = output
             \/ /\ output = ReadyErr(attempts + 1)
                /\ log[Len(log) - 1].ev = "ready_err"
                /\ svcReady = "err"
    /\ \A i \in EventsOf("ready_err") : phase = "done" /\ output = log[i].res

\* C10 witness: the call returned the success of its third attempt
ExactlyOneOutcomeWitness ==
    /\ phase = "done"
    /\ output = CallOutcome("Ok", 3)
    /\ outcomes[1].tag = "Err"

\* C11: when the first attempt succeeds and the policy does not retry
\* successes, the future issues no further attempt, polls no readiness, asks
\* for no clone and never leaves State::Called; the completed call returns
\* that success.
ImmediateSuccess ==
    (Len(outcomes) >= 1 /\ outcomes[1].tag = "Ok" /\ ~policy0.retryOk) =>
        /\ attempts = 1
        /\ trail = <<"Called">>
        /\ EventsOf("call") = {2}
        /\ EventsOf("clone") = {1}
        /\ EventsOf("ready_ok") \cup EventsOf("ready_err") \cup EventsOf("ready_pending") = {}
        /\ EventsOf("decided") = {}
        /\ phase \in {"live", "done", "dropped"}
        /\ phase = "done" => output = CallOutcome("Ok", 1)

\* C11 witness: a policy with retries left was shown the success and declined
ImmediateSuccessWitness ==
    /\ phase = "done"
    /\ output = CallOutcome("Ok", 1)
    /\ heldAtStart
    /\ policy0.left > 0
    /\ ~policy0.retryOk
    /\ EventsOf("retry") # {}

\* the transitions of State that poll performs
PhaseSteps ==
    {<<"Called", "Checking">>, <<"Checking", "Retrying">>, <<"Retrying", "Called">>}

\* C12: the future starts in Called and its State only ever changes
\* Called -> Checking -> Retrying -> Called, also within one poll.
PhaseOrder ==
    /\ trail[1] = "Called"
    /\ state = trail[Len(trail)]
    /\ \A i \in 1..(Len(trail) - 1) : <<trail[i], trail[i + 1]>> \in PhaseSteps

\* C12 witness: the cycle was walked twice
PhaseOrderWitness ==
    /\ Len(trail) = 7
    /\ state = "Called"

\* C13: when clone_request returns None during a re-attempt, that attempt is
\* the last one: Policy::retry is not called again, no further call is made,
\* and the completed call returns that attempt's outcome.
CloneFailureFinal ==
    \A k \in EventsOf("clone") :
        (k > 1 /\ log[k].req = NoReq) =>
            /\ attempts = log[k].att
            /\ \A i \in EventsOf("retry") : i < k
            /\ \A i \in EventsOf("call") : i <= k + 1
            /\ state = "Called"
            /\ phase \in {"live", "done", "dropped"}
            /\ phase = "done" => (output.from = "call" /\ output = outcomes[log[k].att])

\* C13 witness: the last attempt failed and the policy would have retried it
CloneFailureWitness ==
    /\ \E k \in EventsOf("clone") : k > 1 /\ log[k].req = NoReq
    /\ phase = "done"
    /\ output.tag = "Err"
    /\ PolicyRetry(policy, 2, output).st = "some"

\* the request copies the log mentions before position i
CopiesBefore(i) ==
    {1} \cup {log[j].req : j \in {n \in 1..(i - 1) : log[n].ev \in {"clone", "call"}}}

\* C14: a re-attempt asks for the clone before it submits, submits the copy
\* that was held, and carries the clone (or None) forward; clones are fresh
\* copies and no copy is submitted twice.
TakeCloneSubmit ==
    /\ \A k \in EventsOf("call") :
          k > 2 =>
             /\ log[k - 1].ev = "clone"
             /\ log[k].req # NoReq
             /\ log[k].req = HeldBefore(k - 1)
             /\ log[k - 1].req # NoReq => log[k - 1].req \notin CopiesBefore(k - 1)
    /\ \A i, j \in EventsOf("call") : i # j => log[i].req # log[j].req
    /\ phase \in {"live", "done"} => request = HeldBefore(Len(log) + 1)

\* C14 witness: the third attempt submitted copy 3 and copy 4 is held
TakeCloneSubmitWitness ==
    /\ attempts = 3
    /\ request = 4
    /\ \E k \in EventsOf("call") : log[k].att = 3 /\ log[k].req = 3

\* the policy in force just before log position i: the one the latest
\* resolved decision produced, or the one the call started with
PolicyBefore(i) ==
    LET ds == {j \in 1..(i - 1) : log[j].ev = "decided"}
    IN  IF ds = {} THEN policy0
        ELSE log[CHOOSE j \in ds : \A k \in ds : k <= j].pol

\* the latest retry before log position i
RetryBefore(i) ==
    LET rs == {j \in 1..(i - 1) : log[j].ev = "retry"}
    IN  CHOOSE j \in rs : \A k \in rs : k <= j

\* C15: each resolved decision installs the policy that Policy::retry
\* produced, and every later retry and clone_request is made on the policy
\* of the latest resolved decision.
PolicyInPlace ==
    /\ \A j \in EventsOf("decided") :
          LET r == log[RetryBefore(j)]
          IN  log[j].pol = PolicyRetry(r.pol, r.req, r.res).pol
    /\ \A i \in EventsOf("retry") \cup EventsOf("clone") : log[i].pol = PolicyBefore(i)
    /\ policy = PolicyBefore(Len(log) + 1)

\* C15 witness: the second re-attempt cloned with the twice-updated policy
PolicyInPlaceWitness ==
    \E k \in EventsOf("clone") :
        /\ log[k].att = 3
        /\ log[k].pol.left = policy0.left - 2
        /\ \E i \in EventsOf("retry") : i > k /\ log[i].pol = log[k].pol

\* the operation the current State waits on has not resolved
AwaitedPending ==
    /\ phase = "live"
    /\ \/ state = "Called" /\ future.st = "pending"
       \/ state = "Checking" /\ checking.st = "pending"
       \/ state = "Retrying" /\ svcReady = "pending"

\* the log entry a poll leaves when it suspends in the current State
PendingMark ==
    CASE state = "Called" -> "call_pending"
      [] state = "Checking" -> "check_pending"
      [] OTHER -> "ready_pending"

\* C16: a poll that finds the awaited operation still pending returns Pending
\* and changes nothing: State, held request, policy and the awaited operation
\* stay as they were, and no call, retry or clone_request is made.
SpuriousWakeHarmless ==
    [][(AwaitedPending /\ Poll) =>
          /\ ret' = "Pending"
          /\ UNCHANGED <<state, request, policy, future, checking, svcReady,
                         attempts, nextId, outcomes, output, trail, phase>>
          /\ \/ log' = log
             \/ /\ Len(log') = Len(log) + 1
                /\ SubSeq(log', 1, Len(log)) = log
                /\ log'[Len(log')].ev = PendingMark]_vars

\* C16 witness: a poll found the readiness check pending and suspended
SpuriousWakeWitness ==
    /\ AwaitedPending
    /\ state = "Retrying"
    /\ ret = "Pending"
    /\ log[Len(log)].ev = "ready_pending"

\* what a return from poll looks like: Ready with the call done, or Pending
\* at the awaited operation of the current State, which reported pending
ReturnJustified ==
    \/ ret = "Ready" /\ phase = "done"
    \/ /\ ret = "Pending"
       /\ AwaitedPending
       /\ log[Len(log)].ev = PendingMark

\* C17: every poll returns either Ready with the final result or Pending at
\* one of the three awaited operations, which was pending in that poll; a
\* poll never returns while the operation it waits on is ready.
SuspensionPoints ==
    [][Poll => ReturnJustified']_vars

\* C17 witness: one poll took the first outcome, the decision and the
\* readiness check without suspending and suspended on the second attempt
SuspensionPointsWitness ==
    /\ ret = "Pending"
    /\ state = "Called"
    /\ attempts = 2
    /\ future.st = "pending"
    /\ EventsOf("call_pending") = {Len(log)}
    /\ EventsOf("check_pending") \cup EventsOf("ready_pending") = {}

\* C18: expect("retrying requires cloned request") never fails: while the
\* future is in Checking or Retrying it holds a request.
RequestHeldWhenRetrying ==
    /\ phase # "panicked"
    /\ (state \in {"Checking", "Retrying"} /\ phase \in {"live", "done"}) => request # NoReq

\* C18 witness: the readiness check failed after a poll had found it pending
RequestHeldWitness ==
    /\ state = "Retrying"
    /\ phase = "done"
    /\ EventsOf("ready_pending") # {}
    /\ request # NoReq

\* C19: under fair scheduling the call completes (or is dropped by its
\* caller).
EventuallyCompletes ==
    <>(phase \in {"done", "dropped"})

\* C19 witness: a call completed after the largest number of attempts
EventuallyCompletesWitness ==
    /\ phase = "done"
    /\ attempts = policy0.left + 1
    /\ policy0.left = MaxRetries
    /\ EventsOf("call_pending") # {}
    /\ EventsOf("ready_pending") # {}

\* the latest log entry before position i that is not a pending mark
StepBefore(i) ==
    LET js == {j \in 1..(i - 1) :
                  log[j].ev \notin {"call_pending", "check_pending", "ready_pending"}}
    IN  log[CHOOSE j \in js : \A k \in js : k <= j]

ApprovedRetries ==
    {i \in EventsOf("retry") : PolicyRetry(log[i].pol, log[i].req, log[i].res).st = "some"}

\* C20: the attempts the future issues are exactly the approved retry
\* decisions that resolved and were followed by a positive readiness check;
\* retry is called at most once per outcome and clone_request once per
\* re-attempt, however often poll is called.
AttemptAccounting ==
    /\ Cardinality(EventsOf("call")) = attempts
    /\ attempts - 1 = Cardinality(EventsOf("ready_ok"))
    /\ \A k \in EventsOf("call") :
          k > 2 => /\ log[k - 2].ev = "ready_ok"
                   /\ StepBefore(k - 2).ev = "decided"
    /\ \A i \in EventsOf("ready_ok") : log[i + 2].ev = "call"
    /\ \A j \in EventsOf("decided") :
          /\ StepBefore(j).ev = "retry"
          /\ RetryBefore(j) \in ApprovedRetries
    /\ Cardinality(EventsOf("decided")) - Cardinality(EventsOf("ready_ok")) \in {0, 1}
    /\ Cardinality(ApprovedRetries) - Cardinality(EventsOf("decided")) \in {0, 1}
    /\ \A i, j \in EventsOf("retry") : i # j => log[i].res.att # log[j].res.att
    /\ \A i \in EventsOf("retry") : log[i].res.att <= Len(outcomes)
    /\ Cardinality(EventsOf("clone")) = attempts
    /\ \A i, j \in EventsOf("clone") : i # j => log[i].att # log[j].att

\* C20 witness: three attempts, with polls that found each of the three
\* operations pending
AttemptAccountingWitness ==
    /\ attempts = 3
    /\ EventsOf("call_pending") # {}
    /\ EventsOf("check_pending") # {}
    /\ EventsOf("ready_pending") # {}
====
